---- MODULE Spec2Model ----
(***************************************************************************)
(* Model of the Todo REST backend: the five request handlers of the todo   *)
(* controller (createTodo, getAllTodos, getTodoById, updateTodo,           *)
(* deleteTodo), the Todo schema they write through, and the Mongoose model *)
(* calls they make (create, find, findById, findByIdAndUpdate,             *)
(* findByIdAndDelete) against the todos collection; of the start-up and    *)
(* shutdown of the server process; and of the App component of the         *)
(* frontend, which calls that API and keeps the list the page displays.    *)
(***************************************************************************)
EXTENDS Integers, Sequences, FiniteSets, TLC

VARIABLES
    todos,      \* the todos collection: ObjectId string -> stored document
    nextId,     \* counter part of the next generated ObjectId
    now,        \* the clock read by Date.now
    req,        \* the request being answered (NoReq when none)
    res,        \* the response written for req (NoRes when none)
    calls,      \* the Todo model methods the handler has invoked for req
    caught,     \* the error raised while answering req, and who caught it
    nodeEnv,    \* process.env.NODE_ENV
    awaiting,   \* per request slot: the store call a handler is suspended on
    appTodos,   \* App: the todos state, the list the page displays
    loading,    \* App: the loading state
    appError,   \* App: the error state, the banner ("" is the empty sequence)
    filters,    \* App: the filters state
    inflight,   \* App: per slot, the call of the API a handler is awaiting
    proc        \* the server process: database connection, listening, exit

\* the variables the five handlers neither read nor write when the store
\* answers every call at once
\* the state of the App component in the browser
app == <<appTodos, loading, appError, filters, inflight>>

unread == <<caught, nodeEnv, awaiting, app, proc>>

vars == <<todos, nextId, now, req, res, calls, unread>>

----------------------------------------------------------------------------
(* Bounds *)

\* number of ObjectIds the collection ever generates
MaxIds == 2
\* last value of the clock
MaxTime == 1

----------------------------------------------------------------------------
(* JSON values carried by request bodies and stored in documents.  Strings *)
(* are sequences of one-character strings.                                 *)

Undefined == [t |-> "undefined"]
Null == [t |-> "null"]
Str(s) == [t |-> "string", v |-> s]
Bool(b) == [t |-> "boolean", v |-> b]

IsString(x) == x.t = "string"
IsUndefined(x) == x.t = "undefined"

----------------------------------------------------------------------------
(* Identifiers *)

ObjectIdHexLen == 24
HexDigits == <<"0", "1", "2", "3", "4", "5", "6", "7",
               "8", "9", "a", "b", "c", "d", "e", "f">>
HexChars == {HexDigits[i] : i \in 1..16}

\* the hex string of the ObjectId whose counter is n (n < 256)
ObjectId(n) ==
    [i \in 1..ObjectIdHexLen |->
        IF i = ObjectIdHexLen THEN HexDigits[(n % 16) + 1]
        ELSE IF i = ObjectIdHexLen - 1 THEN HexDigits[((n \div 16) % 16) + 1]
        ELSE "0"]

\* isValidObjectId changed to check the length only
isValidObjectId_LengthOnly(id) == Len(id) = ObjectIdHexLen

\* mongoose.Types.ObjectId.isValid on a route parameter (always a string)
isValidObjectId(id) ==
    /\ Len(id) = ObjectIdHexLen
    /\ \A i \in 1..Len(id) : id[i] \in HexChars

----------------------------------------------------------------------------
(* Schema setters and casts *)

IsSpace(c) == c = " "

RECURSIVE TrimLeft(_)
TrimLeft(s) ==
    IF s = <<>> THEN s
    ELSE IF IsSpace(Head(s)) THEN TrimLeft(Tail(s))
    ELSE s

RECURSIVE TrimRight(_)
TrimRight(s) ==
    IF s = <<>> THEN s
    ELSE IF IsSpace(s[Len(s)]) THEN TrimRight(SubSeq(s, 1, Len(s) - 1))
    ELSE s

\* String.prototype.trim
Trim(s) == TrimRight(TrimLeft(s))

\* the trim setter changed to leave the value as supplied (trim: false)
TrimSetter_Off(x) == x

\* the `trim: true` setter: only strings are trimmed
TrimSetter(x) == IF IsString(x) THEN Str(Trim(x.v)) ELSE x

CastError == [t |-> "CastError"]
IsCastError(x) == x.t = "CastError"

\* SchemaString cast: null stays null, a boolean is stringified,
\* a plain object cannot be cast
castString(x) ==
    CASE x.t = "string" -> x
      [] x.t = "null" -> x
      [] x.t = "boolean" ->
            IF x.v THEN Str(<<"t", "r", "u", "e">>)
            ELSE Str(<<"f", "a", "l", "s", "e">>)
      [] OTHER -> CastError

\* convertToTrue / convertToFalse of the boolean cast
ConvertToTrue == {<<"t", "r", "u", "e">>, <<"1">>, <<"y", "e", "s">>}
ConvertToFalse == {<<"f", "a", "l", "s", "e">>, <<"0">>, <<"n", "o">>}

\* SchemaBoolean cast
castBoolean(x) ==
    CASE x.t = "boolean" -> x
      [] x.t = "null" -> x
      [] x.t = "string" ->
            IF x.v \in ConvertToTrue THEN Bool(TRUE)
            ELSE IF x.v \in ConvertToFalse THEN Bool(FALSE)
            ELSE CastError
      [] OTHER -> CastError

----------------------------------------------------------------------------
(* The Todo schema *)

Low == <<"l", "o", "w">>
Medium == <<"m", "e", "d", "i", "u", "m">>
High == <<"h", "i", "g", "h">>
\* priority.enum.values
PriorityValues == {Low, Medium, High}

\* title.minlength
TitleMinLength == 3

\* the defaults changed so that a new todo starts completed
SchemaDefault_Completed(path) ==
    CASE path = "title" -> Undefined
      [] path = "description" -> Str(<<>>)
      [] path = "status" -> Bool(TRUE)
      [] path = "priority" -> Str(Medium)

\* the `default` of each path (title has none)
SchemaDefault(path) ==
    CASE path = "title" -> Undefined
      [] path = "description" -> Str(<<>>)
      [] path = "status" -> Bool(FALSE)
      [] path = "priority" -> Str(Medium)

\* SchemaType.applySetters: the path's setters, then its cast
applySetters(path, x) ==
    CASE path = "title" -> castString(TrimSetter(x))
      [] path = "description" -> castString(TrimSetter(x))
      [] path = "status" -> castBoolean(x)
      [] path = "priority" -> castString(x)

\* the `required` validator of a String path: a non-empty string
checkRequired(x) == IsString(x) /\ Len(x.v) > 0

\* the `minlength` validator: null passes, undefined is not validated
minlengthValidator(x) ==
    \/ x.t \in {"undefined", "null"}
    \/ IsString(x) /\ Len(x.v) >= TitleMinLength

\* the `enum` validator: undefined is not validated; whether null passes
\* (nullOk) depends on the installed Mongoose: from major version 8 on, null
\* is valid for a string enum that is not required
enumValidator(x, nullOk) ==
    \/ x.t = "undefined"
    \/ x.t = "null" /\ nullOk
    \/ IsString(x) /\ x.v \in PriorityValues

\* SchemaType.doValidate: the message of the first failing validator of the
\* path, as a sequence of at most one message
doValidate(path, x, nullOk) ==
    CASE path = "title" ->
            IF ~checkRequired(x) THEN <<"Title is required">>
            ELSE IF ~minlengthValidator(x)
                 THEN <<"Title must be at least 3 characters long">>
            ELSE <<>>
      [] path = "priority" ->
            IF ~enumValidator(x, nullOk)
            THEN <<"Priority must be one of \"low\", \"medium\", or \"high\"">>
            ELSE <<>>
      [] OTHER -> <<>>

CastMessage(path) == <<"Cast failed for value at path \"" \o path \o "\"">>

\* the value a new document holds at path when built from obj
DocValue(path, obj) ==
    IF IsUndefined(obj[path]) THEN SchemaDefault(path)
    ELSE applySetters(path, obj[path])

\* the messages a new document built from obj collects at path: a failed
\* cast, else the first failing validator
DocErrors(path, obj, nullOk) ==
    IF IsCastError(DocValue(path, obj)) THEN CastMessage(path)
    ELSE doValidate(path, DocValue(path, obj), nullOk)

\* Object.values(error.errors).map(e => e.message) of a new document
ValidationMessages(obj, nullOk) ==
    DocErrors("title", obj, nullOk) \o DocErrors("description", obj, nullOk)
        \o DocErrors("status", obj, nullOk) \o DocErrors("priority", obj, nullOk)

\* messages.join(". ")
RECURSIVE Join(_)
Join(msgs) ==
    IF Len(msgs) <= 1 THEN msgs
    ELSE <<Head(msgs), ". ">> \o Join(Tail(msgs))

\* Todo.create(obj) at clock reading t: a ValidationError, or the document
\* to store
TodoCreate(obj, nullOk, t) ==
    IF ValidationMessages(obj, nullOk) # <<>>
    THEN [name |-> "ValidationError",
          messages |-> ValidationMessages(obj, nullOk)]
    ELSE [name |-> "ok",
          doc |-> [title |-> DocValue("title", obj),
                   description |-> DocValue("description", obj),
                   status |-> DocValue("status", obj),
                   priority |-> DocValue("priority", obj),
                   createdAt |-> t,
                   updatedAt |-> t]]

\* toJSON transform: _id is renamed to id
toJSON(id, doc) ==
    [t |-> "object", id |-> id, title |-> doc.title,
     description |-> doc.description, status |-> doc.status,
     priority |-> doc.priority, createdAt |-> doc.createdAt,
     updatedAt |-> doc.updatedAt]

----------------------------------------------------------------------------
(* Model calls on an existing collection *)

\* the update object changed to carry all four fields, supplied or not
UpdateKeys_AllKeys(updates) == DOMAIN updates

\* the keys of the update object: the whitelisted fields that are not undefined
UpdateKeys(updates) == {p \in DOMAIN updates : ~IsUndefined(updates[p])}

\* castUpdate: setters and casts run on every key of the update
CastUpdate(updates) ==
    [p \in DOMAIN updates |->
        IF IsUndefined(updates[p]) THEN Undefined
        ELSE applySetters(p, updates[p])]

\* update validators (runValidators: true) run on the cast value of every
\* key of the update, and on no other path
UpdateErrors(path, updates, nullOk) ==
    IF path \in UpdateKeys(updates)
    THEN doValidate(path, CastUpdate(updates)[path], nullOk)
    ELSE <<>>

UpdateValidationMessages(updates, nullOk) ==
    UpdateErrors("title", updates, nullOk)
        \o UpdateErrors("description", updates, nullOk)
        \o UpdateErrors("status", updates, nullOk)
        \o UpdateErrors("priority", updates, nullOk)

\* the update changed to replace the document (overwrite) instead of $set:
\* the fields the update leaves out fall back to their defaults
ApplyUpdate_Overwrite(doc, updates, t) ==
    [title |-> IF "title" \in UpdateKeys(updates)
               THEN CastUpdate(updates).title ELSE doc.title,
     description |-> IF "description" \in UpdateKeys(updates)
                     THEN CastUpdate(updates).description ELSE SchemaDefault("description"),
     status |-> IF "status" \in UpdateKeys(updates)
                THEN CastUpdate(updates).status ELSE SchemaDefault("status"),
     priority |-> IF "priority" \in UpdateKeys(updates)
                  THEN CastUpdate(updates).priority ELSE SchemaDefault("priority"),
     createdAt |-> doc.createdAt,
     updatedAt |-> t]

\* the update changed to stamp createdAt as well as updatedAt
ApplyUpdate_StampCreatedAt(doc, updates, t) ==
    [title |-> IF "title" \in UpdateKeys(updates)
               THEN CastUpdate(updates).title ELSE doc.title,
     description |-> IF "description" \in UpdateKeys(updates)
                     THEN CastUpdate(updates).description ELSE doc.description,
     status |-> IF "status" \in UpdateKeys(updates)
                THEN CastUpdate(updates).status ELSE doc.status,
     priority |-> IF "priority" \in UpdateKeys(updates)
                  THEN CastUpdate(updates).priority ELSE doc.priority,
     createdAt |-> t,
     updatedAt |-> t]

\* the document after $set of the cast update and the updatedAt timestamp
ApplyUpdate(doc, updates, t) ==
    [title |-> IF "title" \in UpdateKeys(updates)
               THEN CastUpdate(updates).title ELSE doc.title,
     description |-> IF "description" \in UpdateKeys(updates)
                     THEN CastUpdate(updates).description ELSE doc.description,
     status |-> IF "status" \in UpdateKeys(updates)
                THEN CastUpdate(updates).status ELSE doc.status,
     priority |-> IF "priority" \in UpdateKeys(updates)
                  THEN CastUpdate(updates).priority ELSE doc.priority,
     createdAt |-> doc.createdAt,
     updatedAt |-> t]

\* findByIdAndUpdate changed to look the document up before it casts and
\* validates the update
TodoFindByIdAndUpdate_LookupFirst(coll, id, updates, nullOk, t) ==
    IF id \notin DOMAIN coll
    THEN [name |-> "null"]
    ELSE IF \E p \in UpdateKeys(updates) : IsCastError(CastUpdate(updates)[p])
    THEN [name |-> "CastError"]
    ELSE IF UpdateValidationMessages(updates, nullOk) # <<>>
    THEN [name |-> "ValidationError",
          messages |-> UpdateValidationMessages(updates, nullOk)]
    ELSE [name |-> "ok", doc |-> ApplyUpdate(coll[id], updates, t)]

\* Todo.findByIdAndUpdate(id, updates, {new: true, runValidators: true}):
\* the update is cast and validated before the query is sent, so a
\* CastError or ValidationError is thrown whether or not id exists
TodoFindByIdAndUpdate(coll, id, updates, nullOk, t) ==
    IF \E p \in UpdateKeys(updates) : IsCastError(CastUpdate(updates)[p])
    THEN [name |-> "CastError"]
    ELSE IF UpdateValidationMessages(updates, nullOk) # <<>>
    THEN [name |-> "ValidationError",
          messages |-> UpdateValidationMessages(updates, nullOk)]
    ELSE IF id \notin DOMAIN coll
    THEN [name |-> "null"]
    ELSE [name |-> "ok", doc |-> ApplyUpdate(coll[id], updates, t)]

\* the query filter getAllTodos builds from req.query
ListFilter(query) ==
    [status |-> IF IsUndefined(query.status) THEN Undefined
                ELSE Bool(query.status.v = <<"t", "r", "u", "e">>),
     priority |-> query.priority]

\* does a stored document match an equality filter
Matches(doc, filter) ==
    /\ IsUndefined(filter.status) \/ doc.status = filter.status
    /\ IsUndefined(filter.priority) \/ doc.priority = filter.priority

\* the sort changed to oldest first (createdAt: 1)
TodoFindSorted_OldestFirst(coll, filter) ==
    LET ids == {id \in DOMAIN coll : Matches(coll[id], filter)}
        n == Cardinality(ids)
    IN {s \in [1..n -> ids] :
            /\ \A i, j \in 1..n : i # j => s[i] # s[j]
            /\ \A i \in 1..n : \A j \in 1..n :
                 i < j => coll[s[i]].createdAt <= coll[s[j]].createdAt}

\* Todo.find(filter).sort({createdAt: -1}): the orders in which the matching
\* documents can come back (documents with equal createdAt in any order)
TodoFindSorted(coll, filter) ==
    LET ids == {id \in DOMAIN coll : Matches(coll[id], filter)}
        n == Cardinality(ids)
    IN {s \in [1..n -> ids] :
            /\ \A i, j \in 1..n : i # j => s[i] # s[j]
            /\ \A i \in 1..n : \A j \in 1..n :
                 i < j => coll[s[i]].createdAt >= coll[s[j]].createdAt}

----------------------------------------------------------------------------
(* Requests and responses *)

NoReq == [method |-> "none", route |-> "none"]
NoRes == [status |-> 0]

\* no request is being answered
Idle == res.status = 0

EmptyBodyFields ==
    [title |-> Undefined, description |-> Undefined, status |-> Undefined,
     priority |-> Undefined, createdAt |-> Undefined, _id |-> Undefined]
EmptyQuery == [status |-> Undefined, priority |-> Undefined]

Request(method, route, id, body, query) ==
    [method |-> method, route |-> route, id |-> id, body |-> body,
     query |-> query]

\* the envelope helper
response(success, message, data) ==
    [success |-> success, message |-> message, data |-> data]

\* res.status(code).json(body)
Json(code, body) == [status |-> code, body |-> body]
\* res.status(code).send()
Send(code) == [status |-> code]

NotValidIdMessage(id) == <<"\"">> \o id \o <<"\" is not a valid Todo ID">>

JsonList(coll, order) ==
    [t |-> "array",
     items |-> [i \in 1..Len(order) |-> toJSON(order[i], coll[order[i]])]]

----------------------------------------------------------------------------
(* Errors, the handlers' catch blocks and the central error handler *)

\* the requests the server handles at the same time
Slots == {"r1", "r2"}
\* no handler is suspended in the slot
NoCall == [op |-> "none"]

NoError == [name |-> "none", code |-> 0]
NoCatch == [by |-> "none", error |-> NoError]

\* err.stack as the engine builds it: the headline and the frames
Stack(name, message) == <<name, ": ">> \o message \o <<"\n    at ...">>

\* the E11000 error of the MongoDB driver for a unique index on field
DuplicateKeyError(field) ==
    [name |-> "MongoServerError", code |-> 11000, statusCode |-> 0,
     message |-> <<"E11000 duplicate key error collection: test.todos index: ",
                   field, "_1 dup key">>,
     keyValue |-> <<field>>,
     stack |-> Stack("MongoServerError", <<"E11000 duplicate key error">>)]

\* the connection to the store is lost
NetworkError ==
    [name |-> "MongoNetworkError", code |-> 0, statusCode |-> 0,
     message |-> <<"connect ECONNREFUSED 127.0.0.1:27017">>,
     keyValue |-> <<>>,
     stack |-> Stack("MongoNetworkError", <<"connect ECONNREFUSED 127.0.0.1:27017">>)]

\* the errors with which the store rejects a call
StoreErrors ==
    {DuplicateKeyError("_id"), DuplicateKeyError("title"), NetworkError}

\* the Error the unknown-route middleware builds
RouteNotFound(method, url) ==
    [name |-> "Error", code |-> 0, statusCode |-> 404,
     message |-> <<"Route not found: ", method, " ", url>>,
     keyValue |-> <<>>,
     stack |-> Stack("Error", <<"Route not found: ", method, " ", url>>)]

\* the error express.json raises on a body that is not JSON
JsonParseError ==
    [name |-> "SyntaxError", code |-> 0, statusCode |-> 400,
     message |-> <<"Unexpected token } in JSON at position 1">>,
     keyValue |-> <<>>,
     stack |-> Stack("SyntaxError", <<"Unexpected token } in JSON at position 1">>)]

\* the message of the last return of a handler's catch block
ServerErrorMessage(handler) ==
    CASE handler = "createTodo" -> <<"Server error while creating todo">>
      [] handler = "getAllTodos" -> <<"Server error while retrieving todos">>
      [] handler = "getTodoById" -> <<"Server error while retrieving todo">>
      [] handler = "updateTodo" -> <<"Server error while updating todo">>
      [] handler = "deleteTodo" -> <<"Server error while deleting todo">>

\* the catch block changed to answer with the message of the error
Catch_ErrorMessage(handler, error) ==
    IF handler \in {"createTodo", "updateTodo"} /\ error.name = "ValidationError"
    THEN Json(400, response(FALSE, Join(error.errors), Null))
    ELSE Json(500, response(FALSE, error.message, Null))

\* the catch block of a handler: createTodo and updateTodo answer a
\* ValidationError with 400, every handler answers anything else with 500
Catch(handler, error) ==
    IF handler \in {"createTodo", "updateTodo"} /\ error.name = "ValidationError"
    THEN Json(400, response(FALSE, Join(error.errors), Null))
    ELSE Json(500, response(FALSE, ServerErrorMessage(handler), Null))

\* the central handler changed to answer 500 whatever status the error carries
errorHandler_Always500(err, env) ==
    Json(500,
         IF env # "production"
         THEN [success |-> FALSE, message |-> err.message, data |-> Null,
               stack |-> err.stack]
         ELSE [success |-> FALSE, message |-> err.message, data |-> Null])

\* the central handler changed to attach the stack whatever NODE_ENV is
errorHandler_AlwaysStack(err, env) ==
    Json(IF err.statusCode # 0 THEN err.statusCode ELSE 500,
         [success |-> FALSE, message |-> err.message, data |-> Null,
          stack |-> err.stack])

\* the central error-handling middleware under NODE_ENV = env
errorHandler(err, env) ==
    LET isValidation == err.name = "ValidationError"
        isCast == err.name = "CastError"
        isDuplicate == err.code = 11000
        field == IF err.keyValue # <<>> THEN err.keyValue[1] ELSE "field"
        statusCode ==
            IF isDuplicate THEN 409
            ELSE IF isCast \/ isValidation THEN 400
            ELSE IF err.statusCode # 0 THEN err.statusCode
            ELSE 500
        message ==
            IF isDuplicate
            THEN <<"Duplicate value for \"", field,
                   "\". Please use a different value.">>
            ELSE IF isCast
            THEN <<"Invalid value for field \"", err.path, "\": ", err.value>>
            ELSE IF isValidation THEN Join(err.errors)
            ELSE IF err.message # <<>> THEN err.message
            ELSE <<"Internal Server Error">>
    IN Json(statusCode,
            IF env # "production"
            THEN [success |-> FALSE, message |-> message, data |-> Null,
                  stack |-> err.stack]
            ELSE [success |-> FALSE, message |-> message, data |-> Null])

----------------------------------------------------------------------------
(* Inputs *)

Urgent == <<"u", "r", "g", "e", "n", "t">>
True == <<"t", "r", "u", "e">>
False == <<"f", "a", "l", "s", "e">>

WhitelistedFields == {"title", "description", "status", "priority"}

Body(ti, d, st, p, e) ==
    [title |-> ti, description |-> d, status |-> st, priority |-> p,
     createdAt |-> e, _id |-> e]

\* Request bodies that exercise every setter, cast and validator: absent,
\* null, too short once trimmed, valid once trimmed, not castable, outside
\* the enum; fields outside the whitelist (createdAt, _id) supplied or not.
\* A title that is absent or a string is combined with at most one other
\* supplied field; a null title comes alone.
TitleInputs ==
    {Undefined, Str(<<"a", "b", " ">>), Str(<<" ", "a", "b", "c">>)}
FieldBodies ==
    {Body(ti, Undefined, Undefined, Undefined, Undefined) :
        ti \in TitleInputs \cup {Null}}
    \cup {Body(ti, Str(<<" ", "x">>), Undefined, Undefined, Undefined) :
            ti \in TitleInputs}
    \cup {Body(ti, Undefined, st, Undefined, Undefined) :
            ti \in TitleInputs, st \in {Bool(TRUE), Str(<<"x">>)}}
    \cup {Body(ti, Undefined, Undefined, p, Undefined) :
            ti \in TitleInputs, p \in {Null, Str(Low), Str(Urgent)}}
    \cup {Body(ti, Undefined, Undefined, Undefined, Str(<<"0">>)) :
            ti \in TitleInputs}

\* Valid request bodies that vary the two fields the list filters on
ClockBodies ==
    {Body(ti, Undefined, st, p, Undefined) :
        ti \in {Undefined, Str(<<" ", "a", "b", "c">>)},
        st \in {Undefined, Bool(TRUE)},
        p \in {Undefined, Str(Low)}}

Queries ==
    [status : {Undefined, Str(True), Str(False)},
     priority : {Undefined, Str(Low), Str(Medium)}]

\* route parameters: every ObjectId the collection can generate and one more
\* that it never generates; two malformed strings
ObjectIds == {ObjectId(n) : n \in 0..MaxIds}
MalformedIds ==
    {[i \in 1..ObjectIdHexLen |-> IF i = 1 THEN "z" ELSE "0"],
     [i \in 1..(ObjectIdHexLen - 1) |-> "0"]}
IdParams == ObjectIds \cup MalformedIds

----------------------------------------------------------------------------
(* Handlers *)

\* the process as it starts: startServer awaits mongoose.connect
Booting == [db |-> "connecting", listening |-> FALSE, exit |-> "running"]

\* startServer changed to listen whether or not the connection succeeded
\* (app.listen outside the try block, no process.exit)
startServer_ListenAnyway(connected) ==
    [db |-> IF connected THEN "connected" ELSE "failed",
     listening |-> TRUE, exit |-> "running"]

\* startServer after its await: app.listen once connected, process.exit(1)
\* when the connection attempt failed
startServer(connected) ==
    IF connected
    THEN [db |-> "connected", listening |-> TRUE, exit |-> "running"]
    ELSE [db |-> "failed", listening |-> FALSE, exit |-> "exit 1"]

\* no call of the API is awaited
NoRequest == [kind |-> "none"]
\* useState({ status: "", priority: "" })
NoFilters == [status |-> <<>>, priority |-> <<>>]

\* the App component before its first effect has run
Unmounted ==
    /\ appTodos = <<>>
    /\ loading = FALSE
    /\ appError = <<>>
    /\ filters = NoFilters
    /\ inflight = [slot \in Slots |-> NoRequest]

\* the server has connected and listens, on an empty collection, with
\* NODE_ENV = env; no page is open
Start(env) ==
    /\ todos = <<>>
    /\ nextId = 0
    /\ now = 0
    /\ req = NoReq
    /\ res = NoRes
    /\ calls = <<>>
    /\ caught = NoCatch
    /\ nodeEnv = env
    /\ awaiting = [slot \in Slots |-> NoCall]
    /\ Unmounted
    /\ proc = startServer(TRUE)

\* the five handlers never read NODE_ENV: the specifications of the handlers
\* alone run in production
Init == Start("production")

\* POST /api/todos
createTodo(body) ==
    /\ Idle
    /\ \E nullOk \in BOOLEAN :
       LET obj == [p \in WhitelistedFields |-> body[p]]
           r == TodoCreate(obj, nullOk, now)
           id == ObjectId(nextId)
       IN /\ req' = Request("POST", "/", <<>>, body, EmptyQuery)
          /\ calls' = <<"create">>
          /\ IF r.name = "ok"
             THEN /\ nextId < MaxIds
                  /\ todos' = [x \in DOMAIN todos \cup {id} |->
                                   IF x = id THEN r.doc ELSE todos[x]]
                  /\ nextId' = nextId + 1
                  /\ res' = Json(201, response(TRUE,
                               <<"Todo created successfully">>, toJSON(id, r.doc)))
             ELSE /\ res' = Json(400, response(FALSE, Join(r.messages), Null))
                  /\ UNCHANGED <<todos, nextId>>
    /\ UNCHANGED <<now, unread>>

\* GET /api/todos
getAllTodos(query) ==
    /\ Idle
    /\ req' = Request("GET", "/", <<>>, EmptyBodyFields, query)
    /\ calls' = <<"find">>
    /\ \E order \in TodoFindSorted(todos, ListFilter(query)) :
         res' = Json(200, response(TRUE,
                    <<ToString(Len(order)), " todo(s) retrieved successfully">>,
                    JsonList(todos, order)))
    /\ UNCHANGED <<todos, nextId, now, unread>>

\* GET /api/todos/:id
getTodoById(id) ==
    /\ Idle
    /\ req' = Request("GET", "/:id", id, EmptyBodyFields, EmptyQuery)
    /\ IF ~isValidObjectId(id)
       THEN /\ calls' = <<>>
            /\ res' = Json(400, response(FALSE, NotValidIdMessage(id), Null))
       ELSE /\ calls' = <<"findById">>
            /\ IF id \notin DOMAIN todos
               THEN res' = Json(404, response(FALSE, <<"Todo not found">>, Null))
               ELSE res' = Json(200, response(TRUE,
                            <<"Todo retrieved successfully">>, toJSON(id, todos[id])))
    /\ UNCHANGED <<todos, nextId, now, unread>>

\* PATCH /api/todos/:id
updateTodo(id, body) ==
    /\ Idle
    /\ req' = Request("PATCH", "/:id", id, body, EmptyQuery)
    /\ \E nullOk \in BOOLEAN :
       LET updates == [p \in WhitelistedFields |-> body[p]]
           r == TodoFindByIdAndUpdate(todos, id, updates, nullOk, now)
       IN IF ~isValidObjectId(id)
          THEN /\ calls' = <<>>
               /\ res' = Json(400, response(FALSE, NotValidIdMessage(id), Null))
               /\ UNCHANGED todos
          ELSE IF UpdateKeys(updates) = {}
          THEN /\ calls' = <<>>
               /\ res' = Json(400, response(FALSE,
                            <<"No valid fields provided for update">>, Null))
               /\ UNCHANGED todos
          ELSE /\ calls' = <<"findByIdAndUpdate">>
               /\ CASE r.name = "ok" ->
                        /\ todos' = [todos EXCEPT ![id] = r.doc]
                        /\ res' = Json(200, response(TRUE,
                                    <<"Todo updated successfully">>, toJSON(id, r.doc)))
                    [] r.name = "null" ->
                        /\ res' = Json(404, response(FALSE, <<"Todo not found">>, Null))
                        /\ UNCHANGED todos
                    [] r.name = "ValidationError" ->
                        /\ res' = Json(400, response(FALSE, Join(r.messages), Null))
                        /\ UNCHANGED todos
                    [] OTHER ->
                        /\ res' = Json(500, response(FALSE,
                                    <<"Server error while updating todo">>, Null))
                        /\ UNCHANGED todos
    /\ UNCHANGED <<nextId, now, unread>>

\* deleteTodo changed to answer 204 whether or not a document was deleted
deleteTodo_NoNotFound(id) ==
    /\ Idle
    /\ req' = Request("DELETE", "/:id", id, EmptyBodyFields, EmptyQuery)
    /\ IF ~isValidObjectId(id)
       THEN /\ calls' = <<>>
            /\ res' = Json(400, response(FALSE, NotValidIdMessage(id), Null))
            /\ UNCHANGED todos
       ELSE /\ calls' = <<"findByIdAndDelete">>
            /\ res' = Send(204)
            /\ todos' = [x \in DOMAIN todos \ {id} |-> todos[x]]
    /\ UNCHANGED <<nextId, now, unread>>

\* DELETE /api/todos/:id
deleteTodo(id) ==
    /\ Idle
    /\ req' = Request("DELETE", "/:id", id, EmptyBodyFields, EmptyQuery)
    /\ IF ~isValidObjectId(id)
       THEN /\ calls' = <<>>
            /\ res' = Json(400, response(FALSE, NotValidIdMessage(id), Null))
            /\ UNCHANGED todos
       ELSE /\ calls' = <<"findByIdAndDelete">>
            /\ IF id \notin DOMAIN todos
               THEN /\ res' = Json(404, response(FALSE, <<"Todo not found">>, Null))
                    /\ UNCHANGED todos
               ELSE /\ res' = Send(204)
                    /\ todos' = [x \in DOMAIN todos \ {id} |-> todos[x]]
    /\ UNCHANGED <<nextId, now, unread>>

\* the response has been sent and the request is over
ResponseSent ==
    /\ ~Idle
    /\ req' = NoReq
    /\ res' = NoRes
    /\ calls' = <<>>
    /\ caught' = NoCatch
    /\ UNCHANGED <<todos, nextId, now, nodeEnv, awaiting, app, proc>>

\* the clock advances between requests
Tick ==
    /\ Idle
    /\ now < MaxTime
    /\ now' = now + 1
    /\ UNCHANGED <<todos, nextId, req, res, calls, unread>>

\* every handler on the field-exercising bodies, at one clock reading
NextFields ==
    \/ \E body \in FieldBodies : createTodo(body)
    \/ \E query \in Queries : getAllTodos(query)
    \/ \E id \in IdParams : getTodoById(id)
    \/ \E id \in IdParams : \E body \in FieldBodies : updateTodo(id, body)
    \/ \E id \in IdParams : deleteTodo(id)
    \/ ResponseSent

SpecFields == Init /\ [][NextFields]_vars

\* every handler on the valid bodies and well-formed identifiers, with the
\* clock advancing
NextClock ==
    \/ \E body \in ClockBodies : createTodo(body)
    \/ \E query \in Queries : getAllTodos(query)
    \/ \E id \in ObjectIds : getTodoById(id)
    \/ \E id \in ObjectIds : \E body \in ClockBodies : updateTodo(id, body)
    \/ \E id \in ObjectIds : deleteTodo(id)
    \/ ResponseSent
    \/ Tick

SpecClock == Init /\ [][NextClock]_vars

----------------------------------------------------------------------------
(* The handlers when the store rejects their call, and the requests that   *)
(* no handler answers                                                      *)

NodeEnvs == {"production", "development"}

\* request bodies: title absent, too short, valid; status absent, a boolean,
\* not castable
ErrorBodies ==
    {Body(ti, Undefined, st, Undefined, Undefined) :
        ti \in {Undefined, Str(<<"a", "b", " ">>), Str(<<" ", "a", "b", "c">>)},
        st \in {Undefined, Bool(TRUE), Str(<<"x">>)}}

\* requests that match no route: a method the router does not define, a
\* path outside /api/todos
UnmatchedRequests ==
    {<<"PUT", "/api/todos/000000000000000000000000">>,
     <<"GET", "/api/todo">>,
     <<"POST", "/">>}

\* a find, findById or findByIdAndDelete can only fail with the connection;
\* an insert or an update can also violate a unique index
ReadErrors == {NetworkError}
WriteErrors == StoreErrors

RequestUrl(method, url) ==
    [method |-> method, route |-> "*", id |-> <<>>, body |-> EmptyBodyFields,
     query |-> EmptyQuery, url |-> url]

InitErrors == \E env \in NodeEnvs : Start(env)

\* POST /api/todos when the document is valid and the store rejects the
\* insert with error
createTodoStoreError(body, error) ==
    /\ Idle
    /\ \E nullOk \in BOOLEAN :
         TodoCreate([p \in WhitelistedFields |-> body[p]], nullOk, now).name = "ok"
    /\ req' = Request("POST", "/", <<>>, body, EmptyQuery)
    /\ calls' = <<"create">>
    /\ caught' = [by |-> "createTodo", error |-> error]
    /\ res' = Catch("createTodo", error)
    /\ UNCHANGED <<todos, nextId, now, nodeEnv, awaiting, app, proc>>

\* GET /api/todos when the store rejects the find with error
getAllTodosStoreError(query, error) ==
    /\ Idle
    /\ req' = Request("GET", "/", <<>>, EmptyBodyFields, query)
    /\ calls' = <<"find">>
    /\ caught' = [by |-> "getAllTodos", error |-> error]
    /\ res' = Catch("getAllTodos", error)
    /\ UNCHANGED <<todos, nextId, now, nodeEnv, awaiting, app, proc>>

\* GET /api/todos/:id when the store rejects the findById with error
getTodoByIdStoreError(id, error) ==
    /\ Idle
    /\ isValidObjectId(id)
    /\ req' = Request("GET", "/:id", id, EmptyBodyFields, EmptyQuery)
    /\ calls' = <<"findById">>
    /\ caught' = [by |-> "getTodoById", error |-> error]
    /\ res' = Catch("getTodoById", error)
    /\ UNCHANGED <<todos, nextId, now, nodeEnv, awaiting, app, proc>>

\* PATCH /api/todos/:id when the update is valid and the store rejects the
\* findOneAndUpdate with error
updateTodoStoreError(id, body, error) ==
    /\ Idle
    /\ isValidObjectId(id)
    /\ UpdateKeys([p \in WhitelistedFields |-> body[p]]) # {}
    /\ \E nullOk \in BOOLEAN :
         TodoFindByIdAndUpdate(todos, id, [p \in WhitelistedFields |-> body[p]],
                               nullOk, now).name \in {"ok", "null"}
    /\ req' = Request("PATCH", "/:id", id, body, EmptyQuery)
    /\ calls' = <<"findByIdAndUpdate">>
    /\ caught' = [by |-> "updateTodo", error |-> error]
    /\ res' = Catch("updateTodo", error)
    /\ UNCHANGED <<todos, nextId, now, nodeEnv, awaiting, app, proc>>

\* DELETE /api/todos/:id when the store rejects the findByIdAndDelete with
\* error
deleteTodoStoreError(id, error) ==
    /\ Idle
    /\ isValidObjectId(id)
    /\ req' = Request("DELETE", "/:id", id, EmptyBodyFields, EmptyQuery)
    /\ calls' = <<"findByIdAndDelete">>
    /\ caught' = [by |-> "deleteTodo", error |-> error]
    /\ res' = Catch("deleteTodo", error)
    /\ UNCHANGED <<todos, nextId, now, nodeEnv, awaiting, app, proc>>

\* a request no route matches: the 404 middleware builds an Error and passes
\* it to the central error handler
unknownRoute(method, url) ==
    /\ Idle
    /\ req' = RequestUrl(method, url)
    /\ calls' = <<>>
    /\ caught' = [by |-> "errorHandler", error |-> RouteNotFound(method, url)]
    /\ res' = errorHandler(RouteNotFound(method, url), nodeEnv)
    /\ UNCHANGED <<todos, nextId, now, nodeEnv, awaiting, app, proc>>

\* a POST or PATCH whose body is not JSON: express.json passes its error to
\* the central error handler before any route runs
malformedJson(method, route, id) ==
    /\ Idle
    /\ req' = Request(method, route, id, EmptyBodyFields, EmptyQuery)
    /\ calls' = <<>>
    /\ caught' = [by |-> "errorHandler", error |-> JsonParseError]
    /\ res' = errorHandler(JsonParseError, nodeEnv)
    /\ UNCHANGED <<todos, nextId, now, nodeEnv, awaiting, app, proc>>

\* GET /api/health
health ==
    /\ Idle
    /\ req' = Request("GET", "/api/health", <<>>, EmptyBodyFields, EmptyQuery)
    /\ calls' = <<>>
    /\ res' = Json(200, [success |-> TRUE, message |-> <<"Server is running">>,
                         data |-> [t |-> "object", environment |-> nodeEnv]])
    /\ UNCHANGED <<todos, nextId, now, unread>>

\* every request the application answers, with a store that can reject any
\* call
NextErrors ==
    \/ \E body \in ErrorBodies : createTodo(body)
    \/ \E query \in Queries : getAllTodos(query)
    \/ \E id \in IdParams : getTodoById(id)
    \/ \E id \in IdParams : \E body \in ErrorBodies : updateTodo(id, body)
    \/ \E id \in IdParams : deleteTodo(id)
    \/ \E body \in ErrorBodies : \E error \in WriteErrors :
            createTodoStoreError(body, error)
    \/ \E query \in Queries : \E error \in ReadErrors :
            getAllTodosStoreError(query, error)
    \/ \E id \in IdParams : \E error \in ReadErrors :
            getTodoByIdStoreError(id, error)
    \/ \E id \in IdParams : \E body \in ErrorBodies : \E error \in WriteErrors :
            updateTodoStoreError(id, body, error)
    \/ \E id \in IdParams : \E error \in ReadErrors :
            deleteTodoStoreError(id, error)
    \/ \E r \in UnmatchedRequests : unknownRoute(r[1], r[2])
    \/ malformedJson("POST", "/", <<>>)
    \/ \E id \in IdParams : malformedJson("PATCH", "/:id", id)
    \/ health
    \/ ResponseSent

SpecErrors == InitErrors /\ [][NextErrors]_vars

----------------------------------------------------------------------------
(* Requests handled at the same time.  A handler runs without interruption *)
(* up to its await; the store applies the awaited call atomically at some  *)
(* later moment, and the handler resumes with the result and answers.      *)

\* valid updates: the same field with two values, and another field
ConcurrentUpdates ==
    {Body(Undefined, Undefined, Bool(TRUE), Undefined, Undefined),
     Body(Undefined, Undefined, Bool(FALSE), Undefined, Undefined),
     Body(Undefined, Undefined, Undefined, Str(Low), Undefined)}
ConcurrentCreates ==
    {Body(Str(<<" ", "a", "b", "c">>), Undefined, Undefined, Undefined, Undefined)}

\* the identifiers a client can know: those of the documents that have been
\* inserted, still stored or not
KnownIds ==
    {ObjectId(n) : n \in 0..(nextId - 1)}
        \ {awaiting[slot].id : slot \in {x \in Slots : awaiting[x].op = "create"}}

\* createTodo up to its await: the document is built (its _id and createdAt
\* with it), validated, and the insert is sent
createTodoAwaits(slot, body) ==
    /\ Idle
    /\ awaiting[slot] = NoCall
    /\ nextId < MaxIds
    /\ \E nullOk \in BOOLEAN :
         LET r == TodoCreate([p \in WhitelistedFields |-> body[p]], nullOk, now)
         IN /\ r.name = "ok"
            /\ awaiting' = [awaiting EXCEPT ![slot] =
                    [op |-> "create", id |-> ObjectId(nextId),
                     req |-> Request("POST", "/", <<>>, body, EmptyQuery),
                     doc |-> r.doc]]
    /\ nextId' = nextId + 1
    /\ UNCHANGED <<todos, now, req, res, calls, caught, nodeEnv, app, proc>>

\* updateTodo up to its await: the identifier is well formed, the update is
\* not empty, it is cast, validated and stamped, and findOneAndUpdate is sent
updateTodoAwaits(slot, id, body) ==
    /\ Idle
    /\ awaiting[slot] = NoCall
    /\ isValidObjectId(id)
    /\ UpdateKeys([p \in WhitelistedFields |-> body[p]]) # {}
    /\ \E nullOk \in BOOLEAN :
         TodoFindByIdAndUpdate(todos, id, [p \in WhitelistedFields |-> body[p]],
                               nullOk, now).name \in {"ok", "null"}
    /\ awaiting' = [awaiting EXCEPT ![slot] =
            [op |-> "findByIdAndUpdate", id |-> id,
             req |-> Request("PATCH", "/:id", id, body, EmptyQuery),
             updates |-> [p \in WhitelistedFields |-> body[p]],
             stamp |-> now]]
    /\ UNCHANGED <<todos, nextId, now, req, res, calls, caught, nodeEnv,
                   app, proc>>

\* deleteTodo up to its await
deleteTodoAwaits(slot, id) ==
    /\ Idle
    /\ awaiting[slot] = NoCall
    /\ isValidObjectId(id)
    /\ awaiting' = [awaiting EXCEPT ![slot] =
            [op |-> "findByIdAndDelete", id |-> id,
             req |-> Request("DELETE", "/:id", id, EmptyBodyFields, EmptyQuery)]]
    /\ UNCHANGED <<todos, nextId, now, req, res, calls, caught, nodeEnv,
                   app, proc>>

\* findOneAndUpdate changed to insert the document when none matches
\* (upsert: true)
StoreApplies_Upsert(coll, call) ==
    LET id == call.id
    IN CASE call.op = "create" ->
              [coll |-> [x \in DOMAIN coll \cup {id} |->
                            IF x = id THEN call.doc ELSE coll[x]],
               res |-> Json(201, response(TRUE, <<"Todo created successfully">>,
                                          toJSON(id, call.doc)))]
         [] call.op = "findByIdAndUpdate" ->
              LET old == IF id \in DOMAIN coll THEN coll[id]
                         ELSE [title |-> Null, description |-> Str(<<>>),
                               status |-> Bool(FALSE), priority |-> Str(Medium),
                               createdAt |-> call.stamp, updatedAt |-> call.stamp]
                  doc == ApplyUpdate(old, call.updates, call.stamp)
              IN [coll |-> [x \in DOMAIN coll \cup {id} |->
                               IF x = id THEN doc ELSE coll[x]],
                  res |-> Json(200, response(TRUE, <<"Todo updated successfully">>,
                                             toJSON(id, doc)))]
         [] call.op = "findByIdAndDelete" ->
              IF id \in DOMAIN coll
              THEN [coll |-> [x \in DOMAIN coll \ {id} |-> coll[x]],
                    res |-> Send(204)]
              ELSE [coll |-> coll,
                    res |-> Json(404, response(FALSE, <<"Todo not found">>, Null))]

\* the store applies an awaited call to the collection in one step; the
\* handler resumes with the result and builds its answer
StoreApplies(coll, call) ==
    LET id == call.id
    IN CASE call.op = "create" ->
              [coll |-> [x \in DOMAIN coll \cup {id} |->
                            IF x = id THEN call.doc ELSE coll[x]],
               res |-> Json(201, response(TRUE, <<"Todo created successfully">>,
                                          toJSON(id, call.doc)))]
         [] call.op = "findByIdAndUpdate" ->
              IF id \in DOMAIN coll
              THEN LET doc == ApplyUpdate(coll[id], call.updates, call.stamp)
                   IN [coll |-> [coll EXCEPT ![id] = doc],
                       res |-> Json(200, response(TRUE, <<"Todo updated successfully">>,
                                                  toJSON(id, doc)))]
              ELSE [coll |-> coll,
                    res |-> Json(404, response(FALSE, <<"Todo not found">>, Null))]
         [] call.op = "findByIdAndDelete" ->
              IF id \in DOMAIN coll
              THEN [coll |-> [x \in DOMAIN coll \ {id} |-> coll[x]],
                    res |-> Send(204)]
              ELSE [coll |-> coll,
                    res |-> Json(404, response(FALSE, <<"Todo not found">>, Null))]

\* the awaited call of a slot completes and its handler answers
handlerResumes(slot) ==
    /\ Idle
    /\ awaiting[slot] # NoCall
    /\ todos' = StoreApplies(todos, awaiting[slot]).coll
    /\ res' = StoreApplies(todos, awaiting[slot]).res
    /\ req' = awaiting[slot].req
    /\ calls' = <<awaiting[slot].op>>
    /\ awaiting' = [awaiting EXCEPT ![slot] = NoCall]
    /\ UNCHANGED <<nextId, now, caught, nodeEnv, app, proc>>

\* creates, updates and deletes in every interleaving of their awaits, at
\* one clock reading
NextConcurrent ==
    \/ \E slot \in Slots : \E body \in ConcurrentCreates :
            createTodoAwaits(slot, body)
    \/ \E slot \in Slots : \E id \in KnownIds : \E body \in ConcurrentUpdates :
            updateTodoAwaits(slot, id, body)
    \/ \E slot \in Slots : \E id \in KnownIds : deleteTodoAwaits(slot, id)
    \/ \E slot \in Slots : handlerResumes(slot)
    \/ ResponseSent

SpecConcurrent == Init /\ [][NextConcurrent]_vars

\* updates of the status
StatusUpdates ==
    {Body(Undefined, Undefined, Bool(TRUE), Undefined, Undefined),
     Body(Undefined, Undefined, Bool(FALSE), Undefined, Undefined)}

\* creates answered at once and updates in every interleaving of their
\* awaits, with the clock advancing
NextOverlap ==
    \/ \E body \in ConcurrentCreates : createTodo(body)
    \/ \E slot \in Slots : \E id \in KnownIds : \E body \in StatusUpdates :
            updateTodoAwaits(slot, id, body)
    \/ \E slot \in Slots : handlerResumes(slot)
    \/ ResponseSent
    \/ Tick

SpecOverlap == Init /\ [][NextOverlap]_vars

----------------------------------------------------------------------------
(* The process: startServer and shutdown.  Requests are accepted while the *)
(* HTTP server listens; their handlers await the store as above.  Requests *)
(* that arrive after a signal are left out.                                *)

\* the process has just started on an empty collection: nothing listens yet
InitBoot ==
    /\ todos = <<>>
    /\ nextId = 0
    /\ now = 0
    /\ req = NoReq
    /\ res = NoRes
    /\ calls = <<>>
    /\ caught = NoCatch
    /\ nodeEnv = "production"
    /\ awaiting = [slot \in Slots |-> NoCall]
    /\ Unmounted
    /\ proc = Booting

\* mongoose.connect settles and startServer resumes
connectSettles(connected) ==
    /\ proc = Booting
    /\ proc' = startServer(connected)
    /\ UNCHANGED <<todos, nextId, now, req, res, calls, caught, nodeEnv,
                   awaiting, app>>

\* the HTTP server hands a request to its handler
Accepting ==
    proc.listening /\ proc.exit = "running" /\ proc.db = "connected"

\* the handler that made the awaited call
HandlerOf(call) ==
    CASE call.op = "create" -> "createTodo"
      [] call.op = "findByIdAndUpdate" -> "updateTodo"
      [] call.op = "findByIdAndDelete" -> "deleteTodo"

\* the awaited call of a slot is rejected because the connection is being
\* closed; the catch block of the handler answers
handlerCatches(slot) ==
    /\ Idle
    /\ proc.exit = "running"
    /\ proc.db = "closing"
    /\ awaiting[slot] # NoCall
    /\ caught' = [by |-> HandlerOf(awaiting[slot]), error |-> NetworkError]
    /\ res' = Catch(HandlerOf(awaiting[slot]), NetworkError)
    /\ req' = awaiting[slot].req
    /\ calls' = <<awaiting[slot].op>>
    /\ awaiting' = [awaiting EXCEPT ![slot] = NoCall]
    /\ UNCHANGED <<todos, nextId, now, nodeEnv, app, proc>>

\* SIGTERM or SIGINT: shutdown up to its await of mongoose.connection.close()
shutdown(signal) ==
    /\ proc.exit = "running"
    /\ proc.db = "connected"
    /\ proc' = [proc EXCEPT !.db = "closing"]
    /\ UNCHANGED <<todos, nextId, now, req, res, calls, caught, nodeEnv,
                   awaiting, app>>

\* shutdown after its await: process.exit(0), whatever the handlers await
shutdownResumes ==
    /\ proc.exit = "running"
    /\ proc.db = "closing"
    /\ proc' = [db |-> "closed", listening |-> FALSE, exit |-> "exit 0"]
    /\ UNCHANGED <<todos, nextId, now, req, res, calls, caught, nodeEnv,
                   awaiting, app>>

\* the life of the process, with creates, updates of the status and deletes
\* in every interleaving of their awaits
NextProcess ==
    \/ \E connected \in BOOLEAN : connectSettles(connected)
    \/ \E slot \in Slots : \E body \in ConcurrentCreates :
            Accepting /\ createTodoAwaits(slot, body)
    \/ \E slot \in Slots : \E id \in KnownIds : \E body \in StatusUpdates :
            Accepting /\ updateTodoAwaits(slot, id, body)
    \/ \E slot \in Slots : \E id \in KnownIds :
            Accepting /\ deleteTodoAwaits(slot, id)
    \/ \E slot \in Slots : proc.exit = "running" /\ handlerResumes(slot)
    \/ \E slot \in Slots : handlerCatches(slot)
    \/ proc.exit = "running" /\ ResponseSent
    \/ \E signal \in {"SIGTERM", "SIGINT"} : shutdown(signal)
    \/ shutdownResumes

SpecProcess == InitBoot /\ [][NextProcess]_vars

----------------------------------------------------------------------------
(* The App component.  An event handler runs without interruption up to   *)
(* its await.  The call of the API it awaits settles at some later moment: *)
(* the server answers it in one step, or it never reaches the server; the  *)
(* handler then resumes.  React renders between two events, so a handler   *)
(* reads the todos state as it is when its event occurs.                   *)

\* the server variables a call answered in one step leaves as they were
backend == <<now, req, res, calls, caught, nodeEnv, awaiting, proc>>

\* the bodies the stored todos were created from
PageBodies == {b \in ClockBodies : ~IsUndefined(b.title)}

\* the collections of n documents created at clock reading 0
Collections(n) ==
    [{ObjectId(i) : i \in 0..(n - 1)} ->
        {TodoCreate([p \in WhitelistedFields |-> b[p]], TRUE, 0).doc :
            b \in PageBodies}]

\* the payload of the form: TodoForm submits a title of three characters or
\* more once trimmed, a description and a priority ("medium" unless changed)
FormData ==
    {Body(Str(<<" ", "a", "b", "c">>), Str(<<>>), Undefined, Str(Medium),
          Undefined)}

\* the options of the two selects of the FilterBar (without "high")
FilterValues ==
    [status |-> {<<>>, True, False}, priority |-> {<<>>, Low, Medium}]

\* the query parameters loadTodos builds: an empty string is left out
Params(f) ==
    [status |-> IF f.status = <<>> THEN Undefined ELSE Str(f.status),
     priority |-> IF f.priority = <<>> THEN Undefined ELSE Str(f.priority)]

\* loadTodos up to its await
FetchRequest(f) == [kind |-> "fetch", params |-> Params(f)]

\* axios resolves on a 2xx status and throws otherwise; no response at all
\* is NoRes
Resolves(r) == r.status \in 200..299

\* err.response?.data?.message || fallback
ErrorMessage(r, fallback) ==
    IF r = NoRes THEN fallback ELSE r.body.message

\* todos.find((t) => (t.id || t._id) === id)
Find(list, id) ==
    list[CHOOSE i \in DOMAIN list :
            /\ list[i].id = id
            /\ \A j \in 1..(i - 1) : list[j].id # id]

\* prev.map((t) => (t.id || t._id) === id ? { ...t, status: !t.status } : t)
FlipStatus(list, id) ==
    [i \in DOMAIN list |->
        IF list[i].id = id
        THEN [list[i] EXCEPT !.status = Bool(~list[i].status.v)]
        ELSE list[i]]

\* prev.map((t) => (t.id || t._id) === id ? { ...t, status: original.status } : t)
Rollback(list, id, status) ==
    [i \in DOMAIN list |->
        IF list[i].id = id THEN [list[i] EXCEPT !.status = status]
        ELSE list[i]]

\* prev.filter((t) => (t.id || t._id) !== id)
Without(list, id) ==
    LET Other(t) == t.id # id IN SelectSeq(list, Other)

\* the page has just been opened on a server that stores MaxIds - 1 todos:
\* the first effect has run loadTodos, which awaits fetchTodos
InitApp ==
    /\ todos \in Collections(MaxIds - 1)
    /\ nextId = MaxIds - 1
    /\ now = 0
    /\ req = NoReq
    /\ res = NoRes
    /\ calls = <<>>
    /\ caught = NoCatch
    /\ nodeEnv = "production"
    /\ awaiting = [slot \in Slots |-> NoCall]
    /\ proc = startServer(TRUE)
    /\ appTodos = <<>>
    /\ loading = TRUE
    /\ appError = <<>>
    /\ filters = NoFilters
    /\ \E first \in Slots :
         inflight = [slot \in Slots |->
                       IF slot = first THEN FetchRequest(NoFilters)
                       ELSE NoRequest]

\* loadTodos after its await: the list is replaced by the response, or the
\* banner is set; loading is cleared either way
loadTodosResumes(slot, delivered) ==
    /\ inflight[slot].kind = "fetch"
    /\ IF delivered
       THEN /\ \E order \in TodoFindSorted(todos,
                                ListFilter(inflight[slot].params)) :
                 appTodos' = JsonList(todos, order).items
            /\ UNCHANGED appError
       ELSE /\ appError' = <<"Failed to load todos. Is the server running?">>
            /\ UNCHANGED appTodos
    /\ loading' = FALSE
    /\ inflight' = [inflight EXCEPT ![slot] = NoRequest]
    /\ UNCHANGED <<todos, nextId, backend, filters>>

\* handleFilterChange, the render and the effect that follow it: the filter
\* is set and loadTodos runs up to its await
handleFilterChange(slot, key, value) ==
    /\ inflight[slot] = NoRequest
    /\ value # filters[key]
    /\ filters' = [filters EXCEPT ![key] = value]
    /\ loading' = TRUE
    /\ appError' = <<>>
    /\ inflight' = [inflight EXCEPT ![slot] = FetchRequest(filters')]
    /\ UNCHANGED <<todos, nextId, backend, appTodos>>

\* handleAdd, with the call of createTodo settled: the created todo is put
\* in front of the list, or the banner is set
handleAdd(formData, delivered) ==
    /\ nextId < MaxIds
    /\ LET r == TodoCreate([p \in WhitelistedFields |-> formData[p]], TRUE, now)
           call == [op |-> "create", id |-> ObjectId(nextId), doc |-> r.doc]
           answer == IF delivered THEN StoreApplies(todos, call)
                     ELSE [coll |-> todos, res |-> NoRes]
       IN /\ r.name = "ok"
          /\ todos' = answer.coll
          /\ IF Resolves(answer.res)
             THEN /\ appTodos' = <<answer.res.body.data>> \o appTodos
                  /\ appError' = <<>>
                  /\ nextId' = nextId + 1
             ELSE /\ appError' = ErrorMessage(answer.res, <<"Failed to create todo.">>)
                  /\ UNCHANGED <<appTodos, nextId>>
    /\ UNCHANGED <<backend, loading, filters, inflight>>

\* handleToggle up to its await, on the checkbox of a displayed todo: the
\* displayed status is flipped and the negation of the status read from the
\* todos state is sent
handleToggle(slot, id) ==
    /\ inflight[slot] = NoRequest
    /\ \E i \in DOMAIN appTodos : appTodos[i].id = id
    /\ inflight' = [inflight EXCEPT ![slot] =
            [kind |-> "toggle", id |-> id, original |-> Find(appTodos, id)]]
    /\ appTodos' = FlipStatus(appTodos, id)
    /\ UNCHANGED <<todos, nextId, backend, loading, appError, filters>>

\* handleToggle after its await: nothing on success, the rollback on failure
handleToggleResumes(slot, delivered) ==
    /\ inflight[slot].kind = "toggle"
    /\ LET id == inflight[slot].id
           original == inflight[slot].original
           body == Body(Undefined, Undefined, Bool(~original.status.v),
                        Undefined, Undefined)
           call == [op |-> "findByIdAndUpdate", id |-> id,
                    updates |-> [p \in WhitelistedFields |-> body[p]],
                    stamp |-> now]
           answer == IF delivered THEN StoreApplies(todos, call)
                     ELSE [coll |-> todos, res |-> NoRes]
       IN /\ todos' = answer.coll
          /\ IF Resolves(answer.res)
             THEN UNCHANGED <<appTodos, appError>>
             ELSE /\ appTodos' = Rollback(appTodos, id, original.status)
                  /\ appError' = ErrorMessage(answer.res,
                                              <<"Failed to update status.">>)
    /\ inflight' = [inflight EXCEPT ![slot] = NoRequest]
    /\ UNCHANGED <<nextId, backend, loading, filters>>

\* handleDelete up to its await, on the button of a displayed todo: the list
\* is kept as backup and the todo is taken out of the displayed list
handleDelete(slot, id) ==
    /\ inflight[slot] = NoRequest
    /\ \E i \in DOMAIN appTodos : appTodos[i].id = id
    /\ inflight' = [inflight EXCEPT ![slot] =
            [kind |-> "delete", id |-> id, backup |-> appTodos]]
    /\ appTodos' = Without(appTodos, id)
    /\ UNCHANGED <<todos, nextId, backend, loading, appError, filters>>

\* handleDelete after its await: nothing on success, setTodos(backup) on
\* failure
handleDeleteResumes(slot, delivered) ==
    /\ inflight[slot].kind = "delete"
    /\ LET call == [op |-> "findByIdAndDelete", id |-> inflight[slot].id]
           answer == IF delivered THEN StoreApplies(todos, call)
                     ELSE [coll |-> todos, res |-> NoRes]
       IN /\ todos' = answer.coll
          /\ IF Resolves(answer.res)
             THEN UNCHANGED <<appTodos, appError>>
             ELSE /\ appTodos' = inflight[slot].backup
                  /\ appError' = ErrorMessage(answer.res,
                                              <<"Failed to delete todo.">>)
    /\ inflight' = [inflight EXCEPT ![slot] = NoRequest]
    /\ UNCHANGED <<nextId, backend, loading, filters>>

\* the page is loaded and checkboxes are clicked
NextToggle ==
    \/ \E slot \in Slots : \E delivered \in BOOLEAN :
            loadTodosResumes(slot, delivered)
    \/ \E slot \in Slots : \E id \in ObjectIds : handleToggle(slot, id)
    \/ \E slot \in Slots : \E delivered \in BOOLEAN :
            handleToggleResumes(slot, delivered)

SpecToggle == InitApp /\ [][NextToggle]_vars

\* the page is loaded, todos are added, toggled and deleted
NextDelete ==
    \/ \E slot \in Slots : \E delivered \in BOOLEAN :
            loadTodosResumes(slot, delivered)
    \/ \E formData \in FormData : \E delivered \in BOOLEAN :
            handleAdd(formData, delivered)
    \/ \E slot \in Slots : \E id \in ObjectIds : handleDelete(slot, id)
    \/ \E slot \in Slots : \E delivered \in BOOLEAN :
            handleDeleteResumes(slot, delivered)

SpecDelete == InitApp /\ [][NextDelete]_vars

\* the page is loaded and the filters are changed; nothing else changes the
\* collection or the list
NextFetch ==
    \/ \E slot \in Slots : \E key \in DOMAIN FilterValues :
         \E value \in FilterValues[key] : handleFilterChange(slot, key, value)
    \/ \E slot \in Slots : \E delivered \in BOOLEAN :
            loadTodosResumes(slot, delivered)

SpecFetch == InitApp /\ [][NextFetch]_vars

\* the fields TodoItem saves from its edit form: a title of three characters
\* or more once trimmed, a description and a priority
EditData ==
    {Body(Str(<<" ", "a", "b", "c">>), Str(<<>>), Undefined, Str(Low),
          Undefined)}

\* prev.map((t) => ((t.id || t._id) === id ? data.data : t))
Replace(list, id, data) ==
    [i \in DOMAIN list |-> IF list[i].id = id THEN data ELSE list[i]]

\* handleUpdate on a displayed todo, with the call of updateTodo settled: the
\* todo is replaced by the one the server returns, or the banner is set
handleUpdate(id, updatedFields, delivered) ==
    /\ \E i \in DOMAIN appTodos : appTodos[i].id = id
    /\ LET call == [op |-> "findByIdAndUpdate", id |-> id,
                    updates |-> [p \in WhitelistedFields |-> updatedFields[p]],
                    stamp |-> now]
           answer == IF delivered THEN StoreApplies(todos, call)
                     ELSE [coll |-> todos, res |-> NoRes]
       IN /\ todos' = answer.coll
          /\ IF Resolves(answer.res)
             THEN /\ appTodos' = Replace(appTodos, id, answer.res.body.data)
                  /\ appError' = <<>>
             ELSE /\ UNCHANGED appTodos
                  /\ appError' = ErrorMessage(answer.res,
                                              <<"Failed to update todo.">>)
    /\ UNCHANGED <<nextId, backend, loading, filters, inflight>>

\* no call of the API is awaited
NoRequestAwaited == \A slot \in Slots : inflight[slot] = NoRequest

\* the events of the page, each made by a user who waits for the answer to
\* one action before starting the next: onChange of the FilterBar, onAdd of
\* the TodoForm, onToggle, onUpdate and onDelete of a TodoItem
onChange(slot, key, value) ==
    NoRequestAwaited /\ handleFilterChange(slot, key, value)
onAdd(formData, delivered) ==
    NoRequestAwaited /\ handleAdd(formData, delivered)
onToggle(slot, id) ==
    NoRequestAwaited /\ handleToggle(slot, id)
onUpdate(id, updatedFields, delivered) ==
    NoRequestAwaited /\ handleUpdate(id, updatedFields, delivered)
onDelete(slot, id) ==
    NoRequestAwaited /\ handleDelete(slot, id)

\* everything the page offers, one action at a time
NextPage ==
    \/ \E slot \in Slots : \E key \in DOMAIN FilterValues :
         \E value \in FilterValues[key] : onChange(slot, key, value)
    \/ \E slot \in Slots : \E delivered \in BOOLEAN :
            loadTodosResumes(slot, delivered)
    \/ \E formData \in FormData : \E delivered \in BOOLEAN :
            onAdd(formData, delivered)
    \/ \E slot \in Slots : \E id \in ObjectIds : onToggle(slot, id)
    \/ \E slot \in Slots : \E delivered \in BOOLEAN :
            handleToggleResumes(slot, delivered)
    \/ \E id \in ObjectIds : \E updatedFields \in EditData :
         \E delivered \in BOOLEAN : onUpdate(id, updatedFields, delivered)
    \/ \E slot \in Slots : \E id \in ObjectIds : onDelete(slot, id)
    \/ \E slot \in Slots : \E delivered \in BOOLEAN :
            handleDeleteResumes(slot, delivered)

SpecPage == InitApp /\ [][NextPage]_vars

----------------------------------------------------------------------------
(* Vocabulary of the properties *)

\* the handler has just answered a request
Answers == Idle /\ ~Idle'

\* the identifiers of documents that were stored and then deleted
DeletedIds == {ObjectId(n) : n \in 0..(nextId - 1)} \ DOMAIN todos

\* a title that is absent, or shorter than 3 characters once trimmed
TitleTooShort(x) ==
    \/ x.t \in {"undefined", "null"}
    \/ x.t = "string" /\ Len(Trim(x.v)) < 3

\* a title of at least 3 characters once trimmed
TitleLongEnough(x) == x.t = "string" /\ Len(Trim(x.v)) >= 3

\* a value of the wrong type for the boolean status
NotBoolean(x) ==
    \/ x.t = "object"
    \/ x.t = "string" /\ x.v \notin {True, False, <<"1">>, <<"0">>,
                                      <<"y", "e", "s">>, <<"n", "o">>}

\* a priority string outside low, medium, high
BadPriority(x) == x.t = "string" /\ x.v \notin {Low, Medium, High}

\* the body supplies none of title, description, status, priority
NoWhitelistedField(body) ==
    \A f \in WhitelistedFields : body[f].t = "undefined"

\* the body supplies at least one whitelisted field and every supplied value
\* is a valid one: a title of 3 or more characters once trimmed, a string
\* description, a boolean status, a priority among low, medium, high
GoodUpdateBody(body) ==
    /\ ~NoWhitelistedField(body)
    /\ body.title.t = "undefined" \/ TitleLongEnough(body.title)
    /\ body.description.t \in {"undefined", "string"}
    /\ body.status.t \in {"undefined", "boolean"}
    /\ body.priority.t = "undefined"
         \/ (body.priority.t = "string" /\ body.priority.v \in {Low, Medium, High})

\* the body has one of the input errors an update can have
BadUpdateBody(body) ==
    \/ NoWhitelistedField(body)
    \/ body.title.t # "undefined" /\ TitleTooShort(body.title)
    \/ NotBoolean(body.status)
    \/ BadPriority(body.priority)

----------------------------------------------------------------------------
(* C1 as stated: get-by-id, update and delete of a well-formed identifier  *)
(* that matches no stored document always answer 404, whatever the body.   *)
C1_Original ==
    [][(/\ Answers
        /\ req'.route = "/:id"
        /\ req'.id \in ObjectIds
        /\ req'.id \notin DOMAIN todos)
       => res'.status = 404]_vars

(* C1 amended: for a well-formed identifier that matches no stored         *)
(* document, get-by-id and delete always answer 404; update answers 404    *)
(* when its body supplies at least one whitelisted field and every         *)
(* supplied value is valid, answers 400 or 500 (never 404) when the body   *)
(* supplies no whitelisted field or a value that fails validation or       *)
(* casting, and never answers with a success.                              *)
C1_Amended ==
    [][(/\ Answers
        /\ req'.route = "/:id"
        /\ req'.id \in ObjectIds
        /\ req'.id \notin DOMAIN todos)
       => /\ req'.method \in {"GET", "DELETE"} => res'.status = 404
          /\ req'.method = "PATCH" =>
                /\ res'.status \in {400, 404, 500}
                /\ GoodUpdateBody(req'.body) => res'.status = 404
                /\ BadUpdateBody(req'.body) => res'.status \in {400, 500}
          /\ todos' = todos]_vars

\* an update with a valid body of an identifier that matches nothing got 404
C1_Witness ==
    /\ req.method = "PATCH"
    /\ req.id \in ObjectIds
    /\ req.id \notin DOMAIN todos
    /\ GoodUpdateBody(req.body)
    /\ res.status = 404

(* C2: get-by-id, update and delete with a malformed identifier answer 400 *)
(* without calling any method of the Todo model, and the stored documents  *)
(* are unchanged.                                                          *)
C2_MalformedId ==
    [][(/\ Answers
        /\ req'.route = "/:id"
        /\ req'.id \notin ObjectIds)
       => /\ res'.status = 400
          /\ calls' = <<>>
          /\ todos' = todos]_vars

\* an update with a valid body and a malformed identifier got 400 while
\* documents are stored
C2_Witness ==
    /\ req.method = "PATCH"
    /\ req.id \in MalformedIds
    /\ GoodUpdateBody(req.body)
    /\ res.status = 400
    /\ DOMAIN todos # {}

(* C3: every input error of a create or an update (title absent or too     *)
(* short once trimmed, priority outside low/medium/high, a status that is  *)
(* not a boolean, an update without any whitelisted field) is answered 400 *)
(* and never 500.                                                          *)
C3_InputErrorIs400 ==
    /\ (/\ req.method = "POST"
        /\ \/ TitleTooShort(req.body.title)
           \/ NotBoolean(req.body.status)
           \/ BadPriority(req.body.priority))
       => res.status = 400
    /\ (/\ req.method = "PATCH"
        /\ BadUpdateBody(req.body))
       => res.status = 400

(* C4: every stored document has a title of at least 3 characters once     *)
(* trimmed and a priority among low, medium, high.                         *)
C4_StoredValid ==
    \A id \in DOMAIN todos :
        /\ TitleLongEnough(todos[id].title)
        /\ todos[id].priority.t = "string"
        /\ todos[id].priority.v \in {Low, Medium, High}

(* C5: a create whose title is absent or shorter than 3 characters once    *)
(* trimmed answers 400 and leaves the stored documents as they were.       *)
C5_ShortTitleRejected ==
    [][(/\ Answers
        /\ req'.method = "POST"
        /\ TitleTooShort(req'.body.title))
       => /\ res'.status = 400
          /\ todos' = todos]_vars

\* a create whose title is a string that only trimming makes too short got
\* 400 while a document is stored
C5_Witness ==
    /\ req.method = "POST"
    /\ req.body.title.t = "string"
    /\ Len(req.body.title.v) >= 3
    /\ Len(Trim(req.body.title.v)) < 3
    /\ res.status = 400
    /\ DOMAIN todos # {}

\* the description, status and priority the body supplies are valid ones
OptionalFieldsGood(body) ==
    /\ body.description.t \in {"undefined", "string"}
    /\ body.status.t \in {"undefined", "boolean"}
    /\ body.priority.t = "undefined"
         \/ (body.priority.t = "string" /\ body.priority.v \in {Low, Medium, High})

\* the answer is 201 and the collection gained exactly one document, under
\* an identifier no other document has, holding the trimmed title and the
\* defaults of the omitted fields
CreatedFrom(body) ==
    /\ res'.status = 201
    /\ res'.body.success
    /\ \E id \in ObjectIds \ DOMAIN todos :
        /\ DOMAIN todos' = DOMAIN todos \cup {id}
        /\ \A other \in DOMAIN todos : todos'[other] = todos[other]
        /\ res'.body.data.id = id
        /\ todos'[id].title = Str(Trim(body.title.v))
        /\ body.status.t = "undefined" => todos'[id].status = Bool(FALSE)
        /\ body.priority.t = "undefined" => todos'[id].priority = Str(Medium)
        /\ body.description.t = "undefined" => todos'[id].description = Str(<<>>)

(* C6 as stated: a create with a title of at least 3 characters once       *)
(* trimmed answers 201 and adds exactly one document with the trimmed      *)
(* title, the defaults for omitted fields and a fresh identifier.          *)
C6_Original ==
    [][(/\ Answers
        /\ req'.method = "POST"
        /\ TitleLongEnough(req'.body.title))
       => CreatedFrom(req'.body)]_vars

(* C6 amended: a create with a title of at least 3 characters once trimmed *)
(* and whose supplied description, status and priority are valid (a        *)
(* string, a boolean, one of low/medium/high) answers 201 and adds exactly *)
(* one document with the trimmed title, the defaults for omitted fields    *)
(* and a fresh identifier.                                                 *)
C6_Amended ==
    [][(/\ Answers
        /\ req'.method = "POST"
        /\ TitleLongEnough(req'.body.title)
        /\ OptionalFieldsGood(req'.body))
       => CreatedFrom(req'.body)]_vars

\* a second document was created from a title with surrounding whitespace
\* and no optional field
C6_Witness ==
    /\ req.method = "POST"
    /\ res.status = 201
    /\ req.body.title.t = "string"
    /\ Len(Trim(req.body.title.v)) < Len(req.body.title.v)
    /\ NoWhitelistedField([req.body EXCEPT !.title = Undefined])
    /\ Cardinality(DOMAIN todos) = 2

(* C7: an update of a stored document whose body has a title shorter than  *)
(* 3 characters once trimmed or a priority outside low/medium/high answers *)
(* 400 and leaves the stored documents unchanged.                          *)
C7_InvalidUpdateIs400 ==
    [][(/\ Answers
        /\ req'.method = "PATCH"
        /\ req'.id \in DOMAIN todos
        /\ \/ req'.body.title.t = "string" /\ TitleTooShort(req'.body.title)
           \/ BadPriority(req'.body.priority))
       => /\ res'.status = 400
          /\ todos' = todos]_vars

(* C8: a successful update changes none of title, description, status and  *)
(* priority that the body leaves out, ignores the other body fields,       *)
(* keeps the document's id and createdAt, and leaves every other stored    *)
(* document unchanged.                                                     *)
C8_UpdateFrame ==
    [][(/\ Answers
        /\ req'.method = "PATCH"
        /\ res'.status = 200)
       => /\ req'.id \in DOMAIN todos
          /\ DOMAIN todos' = DOMAIN todos
          /\ \A f \in WhitelistedFields :
                req'.body[f].t = "undefined" => todos'[req'.id][f] = todos[req'.id][f]
          /\ todos'[req'.id].createdAt = todos[req'.id].createdAt
          /\ res'.body.data.id = req'.id
          /\ res'.body.data.createdAt = todos[req'.id].createdAt
          /\ \A other \in DOMAIN todos \ {req'.id} : todos'[other] = todos[other]]_vars

\* an update that supplied createdAt and _id but no status succeeded on a
\* completed document while another document is stored
C8_Witness ==
    /\ req.method = "PATCH"
    /\ res.status = 200
    /\ req.body.createdAt.t = "string"
    /\ req.body._id.t = "string"
    /\ req.body.status.t = "undefined"
    /\ todos[req.id].status = Bool(TRUE)
    /\ Cardinality(DOMAIN todos) = 2

\* no listed document has a deleted identifier
ListOmitsDeleted ==
    (req'.method = "GET" /\ req'.route = "/") =>
        \A i \in 1..Len(res'.body.data.items) :
            res'.body.data.items[i].id \notin DeletedIds

(* C9 as stated: once an identifier has been deleted, every later get,     *)
(* update or delete of it answers 404 and changes nothing, and no list     *)
(* contains it.                                                            *)
C9_Original ==
    [][Answers =>
        /\ (req'.route = "/:id" /\ req'.id \in DeletedIds) =>
                (res'.status = 404 /\ todos' = todos)
        /\ ListOmitsDeleted]_vars

(* C9 amended: once an identifier has been deleted, every later get or     *)
(* delete of it answers 404, every later update of it fails and answers    *)
(* 404 when its body supplies a whitelisted field and only valid values    *)
(* (400 or 500 otherwise), none of them changes the stored documents, and  *)
(* no list contains it.                                                    *)
C9_Amended ==
    [][Answers =>
        /\ (req'.route = "/:id" /\ req'.id \in DeletedIds) =>
              /\ req'.method \in {"GET", "DELETE"} => res'.status = 404
              /\ req'.method = "PATCH" =>
                    /\ res'.status \in {400, 404, 500}
                    /\ GoodUpdateBody(req'.body) => res'.status = 404
              /\ todos' = todos
        /\ ListOmitsDeleted]_vars

\* a second delete of an identifier got 404 while another document is stored
C9_Witness ==
    /\ req.method = "DELETE"
    /\ req.id \in DeletedIds
    /\ res.status = 404
    /\ DOMAIN todos # {}

\* the document satisfies the filters the query supplies
Satisfies(doc, query) ==
    /\ \/ query.status.t = "undefined"
       \/ query.status.v = True /\ doc.status = Bool(TRUE)
       \/ query.status.v = False /\ doc.status = Bool(FALSE)
    /\ \/ query.priority.t = "undefined"
       \/ doc.priority = query.priority

(* C10: a list answers 200 with exactly the stored documents that satisfy  *)
(* the supplied filters, each once and as stored, newest createdAt first,  *)
(* and reports the number of documents returned.                           *)
C10_List ==
    (req.method = "GET" /\ req.route = "/") =>
        LET items == res.body.data.items
        IN /\ res.status = 200
           /\ {items[i].id : i \in 1..Len(items)}
                = {id \in DOMAIN todos : Satisfies(todos[id], req.query)}
           /\ \A i, j \in 1..Len(items) : items[i].id = items[j].id => i = j
           /\ \A i \in 1..Len(items) :
                /\ items[i].title = todos[items[i].id].title
                /\ items[i].status = todos[items[i].id].status
                /\ items[i].priority = todos[items[i].id].priority
                /\ items[i].createdAt = todos[items[i].id].createdAt
           /\ \A i, j \in 1..Len(items) :
                i < j => items[i].createdAt >= items[j].createdAt
           /\ res.body.message[1] = ToString(Len(items))

\* a list filtered on status and priority returned one of two stored
\* documents that were created at different times
C10_Witness ==
    /\ req.method = "GET"
    /\ req.route = "/"
    /\ req.query.status.t = "string"
    /\ req.query.priority.t = "string"
    /\ Cardinality(DOMAIN todos) = 2
    /\ Len(res.body.data.items) = 1
    /\ \E a, b \in DOMAIN todos : todos[a].createdAt < todos[b].createdAt

(* C11 as stated: for every stored document, no step decreases updatedAt   *)
(* or changes createdAt, and updatedAt is never less than createdAt.       *)
C11_Original ==
    [][/\ \A id \in DOMAIN todos \cap DOMAIN todos' :
            /\ todos'[id].updatedAt >= todos[id].updatedAt
            /\ todos'[id].createdAt = todos[id].createdAt
       /\ \A id \in DOMAIN todos' :
            todos'[id].updatedAt >= todos'[id].createdAt]_vars

\* the clock reading at which the update just answered was issued
IssuedAt ==
    CHOOSE t \in 0..MaxTime :
        \E slot \in Slots : /\ awaiting[slot] # NoCall
                             /\ awaiting'[slot] = NoCall
                             /\ awaiting[slot].stamp = t

(* C11 amended: for every stored document, no step changes createdAt and   *)
(* updatedAt is never less than createdAt; a successful update sets        *)
(* updatedAt to the clock reading at which it was issued, so a step        *)
(* decreases updatedAt only when it applies an update that was issued      *)
(* before the update applied previously (two updates in flight at the same *)
(* time, applied in the other order).                                      *)
C11_Amended ==
    [][/\ \A id \in DOMAIN todos \cap DOMAIN todos' :
            /\ todos'[id].createdAt = todos[id].createdAt
            /\ todos'[id].updatedAt # todos[id].updatedAt =>
                  /\ Answers /\ req'.method = "PATCH" /\ req'.id = id
                  /\ res'.status = 200
                  /\ todos'[id].updatedAt = IssuedAt
       /\ (Answers /\ req'.method = "PATCH" /\ res'.status = 200) =>
            /\ todos'[req'.id].updatedAt = IssuedAt
            /\ IssuedAt <= now
       /\ \A id \in DOMAIN todos' :
            todos'[id].updatedAt >= todos'[id].createdAt]_vars

\* an update issued after the document's creation has been applied while
\* an update of the same document issued before it is still awaited, and
\* another document, never updated, is stored
C11_Witness ==
    /\ req.method = "PATCH"
    /\ res.status = 200
    /\ todos[req.id].updatedAt > todos[req.id].createdAt
    /\ \E slot \in Slots :
         /\ awaiting[slot].op = "findByIdAndUpdate"
         /\ awaiting[slot].id = req.id
         /\ awaiting[slot].stamp < todos[req.id].updatedAt
    /\ \E other \in DOMAIN todos \ {req.id} :
            todos[other].updatedAt = todos[other].createdAt

(* C12: when the store rejects the insert of a create or the write of an   *)
(* update with a duplicate-key error, the answer is 409 and its message    *)
(* names the field of the violated index.                                  *)
C12_DuplicateKeyIs409 ==
    caught.error.code = 11000 =>
        /\ res.status = 409
        /\ \E i \in 1..Len(res.body.message) :
                res.body.message[i] = caught.error.keyValue[1]

\* the body has the three fields of the envelope, success tells whether the
\* status is 2xx, and data is null on a failure
EnvelopeRest(code, body) ==
    /\ {"success", "message", "data"} \subseteq DOMAIN body
    /\ body.success <=> code \in 200..299
    /\ body.message # <<>>
    /\ ~body.success => body.data.t = "null"

C14_NoValidFields ==
    [][(/\ Answers
        /\ req'.method = "PATCH"
        /\ req'.id \in ObjectIds
        /\ NoWhitelistedField(req'.body))
       => /\ res'.status = 400
          /\ res'.body.message = <<"No valid fields provided for update">>
          /\ calls' = <<>>
          /\ todos' = todos]_vars

\* an update of a stored document whose body supplies only createdAt and
\* _id got 400
C14_Witness ==
    /\ req.method = "PATCH"
    /\ req.id \in DOMAIN todos
    /\ NoWhitelistedField(req.body)
    /\ req.body.createdAt.t = "string"
    /\ res.status = 400

GenericMessages ==
    {<<"Server error while creating todo">>,
     <<"Server error while retrieving todos">>,
     <<"Server error while retrieving todo">>,
     <<"Server error while updating todo">>,
     <<"Server error while deleting todo">>}

\* the texts an error carries: its name, its message, its stack
ErrorTexts(error) ==
    {error.name} \cup {error.message[i] : i \in 1..Len(error.message)}
        \cup {error.stack[i] : i \in 1..Len(error.stack)}

SuppliedValue(f, x) ==
    IF f \in {"title", "description"} THEN Str(Trim(x.v)) ELSE x

(* C15: in every interleaving of requests handled at the same time, the    *)
(* store call of a request changes no document but the one it names and    *)
(* no other request in flight; an update is applied whole and at once to   *)
(* the document as it is at that moment (every field it supplies takes the *)
(* supplied value, every other field keeps its value, so that the last     *)
(* update applied decides), it succeeds whenever the document exists then, *)
(* and no request is answered with a conflict or a server error.           *)
C15_LastWriteWins ==
    [][Answers =>
        LET id == IF req'.method = "POST" THEN res'.body.data.id ELSE req'.id
        IN /\ \A other \in (DOMAIN todos \cup DOMAIN todos') \ {id} :
                /\ other \in DOMAIN todos
                /\ other \in DOMAIN todos'
                /\ todos'[other] = todos[other]
           /\ \A slot \in Slots :
                awaiting'[slot] # NoCall => awaiting'[slot] = awaiting[slot]
           /\ res'.status \notin {409, 500}
           /\ req'.method = "PATCH" =>
                IF id \in DOMAIN todos
                THEN /\ res'.status = 200
                     /\ id \in DOMAIN todos'
                     /\ \A f \in WhitelistedFields :
                          /\ todos'[id][f] =
                                IF req'.body[f].t = "undefined" THEN todos[id][f]
                                ELSE SuppliedValue(f, req'.body[f])
                          /\ res'.body.data[f] = todos'[id][f]
                ELSE res'.status = 404 /\ todos' = todos
           /\ req'.method = "DELETE" =>
                IF id \in DOMAIN todos
                THEN /\ res'.status = 204
                     /\ DOMAIN todos' = DOMAIN todos \ {id}
                ELSE res'.status = 404 /\ todos' = todos
           /\ req'.method = "POST" =>
                /\ res'.status = 201
                /\ id \notin DOMAIN todos
                /\ DOMAIN todos' = DOMAIN todos \cup {id}]_vars

\* of two updates in flight that set the status of the same document to
\* different values, one has been applied and the other is still awaited,
\* while another document is stored
C15_Witness ==
    /\ req.method = "PATCH"
    /\ res.status = 200
    /\ req.body.status.t = "boolean"
    /\ todos[req.id].status = req.body.status
    /\ DOMAIN todos # {req.id}
    /\ \E slot \in Slots :
         /\ awaiting[slot].op = "findByIdAndUpdate"
         /\ awaiting[slot].id = req.id
         /\ awaiting[slot].updates.status.t = "boolean"
         /\ awaiting[slot].updates.status # req.body.status

----------------------------------------------------------------------------
(* The App component *)

\* a toggle of the todo is awaited
ToggleAwaited(id) ==
    \E slot \in Slots :
        inflight[slot].kind = "toggle" /\ inflight[slot].id = id

\* C18: handleToggle flips the displayed status at once and rolls it back
\* when the request fails: once no toggle of a displayed todo is awaited any
\* more, whichever of them succeeded or failed and in whatever order, the
\* status the page displays for it is the status the server stores.
C18_ToggleSettles ==
    \A i \in DOMAIN appTodos :
        LET id == appTodos[i].id
        IN (id \in DOMAIN todos /\ ~ToggleAwaited(id))
              => appTodos[i].status = todos[id].status

\* the step is the rollback of the delete awaited in the slot: the handler
\* resumes and the server has deleted nothing
DeleteRolledBack(slot) ==
    /\ inflight[slot].kind = "delete"
    /\ inflight'[slot] = NoRequest
    /\ todos' = todos

\* C19: handleDelete takes the todo out of the displayed list at once and
\* puts it back when the request fails; the rollback changes nothing else:
\* every other todo is displayed after it as it was before it.
C19_DeleteRollback ==
    [][\A slot \in Slots :
          /\ (inflight[slot] = NoRequest /\ inflight'[slot].kind = "delete")
                => /\ appTodos' = Without(appTodos, inflight'[slot].id)
                   /\ \A i \in DOMAIN appTodos' :
                         appTodos'[i].id # inflight'[slot].id
          /\ DeleteRolledBack(slot)
                => /\ \E i \in DOMAIN appTodos' :
                         appTodos'[i].id = inflight[slot].id
                   /\ Without(appTodos', inflight[slot].id)
                         = Without(appTodos, inflight[slot].id)]_vars

\* a fetch is awaited
FetchAwaited == \E slot \in Slots : inflight[slot].kind = "fetch"

\* C20: the list is fetched again whenever the filters change; loading is
\* true exactly while a fetch is awaited; and once no fetch is awaited and
\* none has failed since the last one was issued, the displayed list is the
\* response to the fetch for the current filters, in whatever order the
\* responses arrived.
C20_FetchSettles ==
    /\ loading <=> FetchAwaited
    /\ (~FetchAwaited /\ appError = <<>>)
          => \E order \in TodoFindSorted(todos, ListFilter(Params(filters))) :
                appTodos = JsonList(todos, order).items

\* the displayed todo matches the status and priority filters of the page
MatchesFilters(t) == Matches(t, ListFilter(Params(filters)))

\* const totalCount = todos.length, the total passed to FilterBar
totalCount == Len(appTodos)

\* C21: whenever no request is awaited, every displayed todo matches the
\* current status and priority filters, and the total passed to FilterBar is
\* the number of displayed todos that match them; after any sequence of add,
\* toggle, update and delete, not only after a fetch.
C21_DisplayedMatchFilters ==
    NoRequestAwaited
        => /\ \A i \in DOMAIN appTodos : MatchesFilters(appTodos[i])
           /\ totalCount
                = Cardinality({i \in DOMAIN appTodos : MatchesFilters(appTodos[i])})

----------------------------------------------------------------------------
(* The process *)

\* a handler has been handed a request and awaits the store
SomeRequestAwaits == \E slot \in Slots : awaiting[slot] # NoCall

\* C22: the HTTP server listens only after the database connection has
\* succeeded, so no request is in the hands of a handler while the database
\* was never connected; when the connection attempt fails the process has
\* exited with code 1 and does not listen.
C22_ConnectThenListen ==
    /\ proc.listening => proc.db \in {"connected", "closing"}
    /\ proc.db \in {"connecting", "failed"}
          => ~SomeRequestAwaits /\ req = NoReq /\ todos = <<>>
    /\ proc.db = "failed" => proc.exit = "exit 1" /\ ~proc.listening

\* a request is being handled by the listening, connected server
C22_Witness ==
    /\ proc.listening
    /\ proc.db = "connected"
    /\ SomeRequestAwaits

\* C23: once the process has exited with code 0 after SIGTERM or SIGINT, the
\* database connection is closed and no request accepted before the signal
\* is left without a response.
C23_GracefulShutdown ==
    proc.exit = "exit 0"
        => /\ proc.db = "closed"
           /\ ~SomeRequestAwaits

====
